---- MODULE Spec2Model ----
(***************************************************************************)
(* Currency exchange API: credential store, rate store, JWT authentication *)
(* middleware, admin CRUD over currency pairs and the conversion endpoint. *)
(*                                                                         *)
(* Strings are sequences of one-character strings, so that trimming,       *)
(* upper-casing and prefix tests are computed.  Numbers that travel in a   *)
(* JSON body are decimals with three fraction digits, held as an integer   *)
(* count of thousandths; where the code does arithmetic on them they are   *)
(* converted to IEEE-754 doubles (53-bit significand, round to nearest,    *)
(* ties to even) exactly as the JavaScript engine does.  Time is counted   *)
(* in days.                                                                *)
(***************************************************************************)
EXTENDS Integers, Sequences, FiniteSets, TLC

VARIABLES
    users,       \* Credential Store: user id -> [username, password, role]
    pairs,       \* Rate Store: pair id -> [baseCurrency, targetCurrency, rate, lastUpdated]
    nextUserId,  \* the next fresh user id
    nextPairId,  \* the next fresh pair id
    now,         \* the server's clock, in days
    issued,      \* the tokens the server has signed so far
    req,         \* the last request served
    ran,         \* the middleware and handlers that ran for it, in order
    res,         \* the response to it
    flight       \* the requests whose handler awaits its write, oldest first

vars == <<users, pairs, nextUserId, nextPairId, now, issued, req, ran, res, flight>>

(***************************************************************************)
(* Bounds of the model.                                                    *)
(***************************************************************************)
MaxUsers == 2
MaxPairs == 2
MaxTokens == 2
MaxFlights == 2
MaxTime == 31

(***************************************************************************)
(* Natural numbers of arbitrary size: little-endian sequences of limbs in  *)
(* base 2^15, without leading zero limbs (zero is the empty sequence).     *)
(***************************************************************************)
Limb == 32768
LimbBits == 15

RECURSIVE Pow2(_)
Pow2(k) == IF k = 0 THEN 1 ELSE 2 * Pow2(k - 1)

RECURSIVE BigNorm(_)
BigNorm(a) ==
    IF Len(a) = 0 THEN a
    ELSE IF a[Len(a)] = 0 THEN BigNorm(SubSeq(a, 1, Len(a) - 1))
    ELSE a

RECURSIVE BigFromInt(_)
BigFromInt(n) == IF n = 0 THEN << >> ELSE <<n % Limb>> \o BigFromInt(n \div Limb)

RECURSIVE BigToInt(_)
BigToInt(a) == IF Len(a) = 0 THEN 0 ELSE a[1] + Limb * BigToInt(Tail(a))

RECURSIVE BigAddC(_, _, _)
BigAddC(a, b, c) ==
    IF Len(a) = 0 /\ Len(b) = 0 THEN (IF c = 0 THEN << >> ELSE <<c>>)
    ELSE LET x == IF Len(a) = 0 THEN 0 ELSE a[1]
             y == IF Len(b) = 0 THEN 0 ELSE b[1]
             s == x + y + c
         IN  <<s % Limb>> \o BigAddC(IF Len(a) = 0 THEN a ELSE Tail(a),
                                     IF Len(b) = 0 THEN b ELSE Tail(b),
                                     s \div Limb)

BigAdd(a, b) == BigNorm(BigAddC(a, b, 0))

RECURSIVE BigMulSmallC(_, _, _)
BigMulSmallC(a, k, c) ==
    IF Len(a) = 0 THEN (IF c = 0 THEN << >> ELSE <<c>>)
    ELSE LET s == a[1] * k + c
         IN  <<s % Limb>> \o BigMulSmallC(Tail(a), k, s \div Limb)

\* a * k for 0 <= k < 2^15
BigMulSmall(a, k) == BigNorm(BigMulSmallC(a, k, 0))

RECURSIVE BigMul(_, _)
BigMul(a, b) ==
    IF Len(b) = 0 THEN << >>
    ELSE BigAdd(BigMulSmall(a, b[1]),
                LET t == BigMul(a, Tail(b)) IN IF Len(t) = 0 THEN t ELSE <<0>> \o t)

\* <<quotient, remainder>> of a by k, for 0 < k <= 2^15, from the top limb down
RECURSIVE BigDivSmallR(_, _, _, _)
BigDivSmallR(a, k, i, r) ==
    IF i = 0 THEN << << >>, r >>
    ELSE LET cur == r * Limb + a[i]
             rest == BigDivSmallR(a, k, i - 1, cur % k)
         IN  << rest[1] \o <<cur \div k>>, rest[2] >>

BigDivSmall(a, k) ==
    LET qr == BigDivSmallR(a, k, Len(a), 0) IN << BigNorm(qr[1]), qr[2] >>

RECURSIVE Zeros(_)
Zeros(n) == IF n = 0 THEN << >> ELSE <<0>> \o Zeros(n - 1)

\* a * 2^k
BigShl(a, k) ==
    IF Len(a) = 0 THEN a
    ELSE Zeros(k \div LimbBits) \o BigMulSmall(a, Pow2(k % LimbBits))

\* floor(a / 2^k)
BigShr(a, k) ==
    IF k \div LimbBits >= Len(a) THEN << >>
    ELSE BigDivSmall(SubSeq(a, (k \div LimbBits) + 1, Len(a)), Pow2(k % LimbBits))[1]

RECURSIVE IntBitLen(_)
IntBitLen(n) == IF n = 0 THEN 0 ELSE 1 + IntBitLen(n \div 2)

BigBitLen(a) ==
    IF Len(a) = 0 THEN 0 ELSE LimbBits * (Len(a) - 1) + IntBitLen(a[Len(a)])

BigOdd(a) == Len(a) > 0 /\ a[1] % 2 = 1

(***************************************************************************)
(* IEEE-754 doubles that are zero or positive and normal: [m, e] stands    *)
(* for m * 2^e with 2^52 <= m < 2^53; zero is [m |-> << >>, e |-> 0].      *)
(***************************************************************************)
MantBits == 53
DecimalScale == 1000

DoubleZero == [m |-> << >>, e |-> 0]

\* q * 2^e after q, a significand of at most 53 bits, was rounded up by one
DoubleCarry(q, e) ==
    IF BigBitLen(q) > MantBits THEN [m |-> BigShr(q, 1), e |-> e + 1]
    ELSE [m |-> q, e |-> e]

\* round p * 2^e (p > 0, any size of at least 53 bits) to nearest, ties to even
DoubleRound(p, e) ==
    LET sh == BigBitLen(p) - MantBits
    IN  IF sh = 0 THEN [m |-> p, e |-> e]
        ELSE LET q == BigShr(p, sh)
                 top == BigShr(p, sh - 1)
                 roundBit == BigOdd(top)
                 sticky == BigShl(top, sh - 1) # p
                 up == roundBit /\ (sticky \/ BigOdd(q))
             IN  IF up THEN DoubleCarry(BigAdd(q, <<1>>), e + sh)
                 ELSE [m |-> q, e |-> e + sh]

\* the double nearest to n / 1000, for an integer n >= 0 (a JSON number literal
\* with three fraction digits, as JSON.parse reads it)
DoubleOfDecimal(n) ==
    IF n = 0 THEN DoubleZero
    ELSE LET s == MantBits + 12 - IntBitLen(n)
             qr == BigDivSmall(BigShl(BigFromInt(n), s), DecimalScale)
             \* qr[1] has 53..56 bits; fold the division's remainder into a
             \* sticky bit below it
             p == BigAdd(BigShl(qr[1], 1), IF qr[2] = 0 THEN << >> ELSE <<1>>)
         IN  DoubleRound(p, 0 - s - 1)

\* x * y in double arithmetic
DoubleMul(x, y) ==
    IF Len(x.m) = 0 \/ Len(y.m) = 0 THEN DoubleZero
    ELSE DoubleRound(BigMul(x.m, y.m), x.e + y.e)

\* Number(x.toFixed(2)) for a double x >= 0, as the count of hundredths:
\* toFixed picks the integer n for which n / 100 - x is closest to zero, the
\* larger n of two, computed on the exact value of the double
ToFixed2(x) ==
    IF Len(x.m) = 0 THEN 0
    ELSE IF x.e >= 0 THEN BigToInt(BigShl(BigMulSmall(x.m, 100), x.e))
    ELSE BigToInt(BigShr(BigAdd(BigMulSmall(x.m, 200), BigShl(<<1>>, 0 - x.e)),
                         1 - x.e))


(***************************************************************************)
(* Strings: sequences of characters, compared in code-unit order.          *)
(***************************************************************************)
Alphabet ==
    <<" ", "0", "1", "2", "3", "4", "5", "6", "7", "8", "9",
      "A", "B", "C", "D", "E", "F", "G", "H", "I", "J", "K", "L", "M",
      "N", "O", "P", "Q", "R", "S", "T", "U", "V", "W", "X", "Y", "Z",
      "a", "b", "c", "d", "e", "f", "g", "h", "i", "j", "k", "l", "m",
      "n", "o", "p", "q", "r", "s", "t", "u", "v", "w", "x", "y", "z">>

CharIndex(c) == CHOOSE i \in 1..Len(Alphabet) : Alphabet[i] = c

IsLower(c) == CharIndex(c) > 37

UpperChar(c) == IF IsLower(c) THEN Alphabet[CharIndex(c) - 26] ELSE c

\* String.prototype.toUpperCase
ToUpperCase(s) == [i \in 1..Len(s) |-> UpperChar(s[i])]

IsSpace(c) == c = " "

RECURSIVE TrimLeft(_)
TrimLeft(s) ==
    IF Len(s) > 0 /\ IsSpace(s[1]) THEN TrimLeft(Tail(s)) ELSE s

RECURSIVE TrimRight(_)
TrimRight(s) ==
    IF Len(s) > 0 /\ IsSpace(s[Len(s)]) THEN TrimRight(SubSeq(s, 1, Len(s) - 1)) ELSE s

\* the trim sanitizer / the schema's trim setter
Trim(s) == TrimRight(TrimLeft(s))

\* String.prototype.startsWith
StartsWith(s, p) == Len(s) >= Len(p) /\ SubSeq(s, 1, Len(p)) = p

\* s < t in code-unit order
RECURSIVE StrLess(_, _)
StrLess(s, t) ==
    IF Len(t) = 0 THEN FALSE
    ELSE IF Len(s) = 0 THEN TRUE
    ELSE IF s[1] = t[1] THEN StrLess(Tail(s), Tail(t))
    ELSE CharIndex(s[1]) < CharIndex(t[1])

(***************************************************************************)
(* Values of a JSON body.  A text field is a string; a numeric field is    *)
(* absent, a number (in thousandths), the number Infinity (what JSON.parse  *)
(* makes of a literal such as 1e999) or a string that is no number.        *)
(***************************************************************************)
Absent == [k |-> "absent"]
Num(v) == [k |-> "num", v |-> v]
Infinite == [k |-> "inf"]
NotANumber == [k |-> "text"]

\* !x for a body value: undefined and 0 are falsy, a non-empty string is not
Falsy(x) == x.k = "absent" \/ (x.k = "num" /\ x.v = 0)

\* an amount check that forgets the sign
LeqZeroForgotten(x) == FALSE

\* x <= 0 and x < 0 after ToNumber: comparisons with NaN are false
LeqZero(x) == x.k = "num" /\ x.v <= 0
LessZero(x) == x.k = "num" /\ x.v < 0

\* the global isNaN(x): undefined and a non-numeric string convert to NaN
IsNaN(x) == x.k \in {"absent", "text"}

\* an isFloat() without its lower bound
IsFloatAny(x) == x.k = "num"

\* express-validator notEmpty() and isFloat({ gt: 0 }) on the value's string form
NotEmptyValue(x) == x.k # "absent"
IsFloatGtZero(x) == x.k = "num" /\ x.v > 0

\* validator.js isUppercase: str === str.toUpperCase()
IsUppercase(s) == s = ToUpperCase(s)

\* errors of one currency-code chain: trim, notEmpty, isLength(3, 3), and
\* isUppercase where the chain has it; every validator of a chain runs
CodeErrors(raw, requiredMsg, upper) ==
    LET s == Trim(raw)
    IN  (IF Len(s) = 0 THEN <<requiredMsg>> ELSE << >>)
        \o (IF Len(s) # 3 THEN <<"Currency code must be 3 characters">> ELSE << >>)
        \o (IF upper /\ ~IsUppercase(s) THEN <<"Currency code must be uppercase">>
            ELSE << >>)

NumberErrors(x, requiredMsg, positiveMsg) ==
    (IF ~NotEmptyValue(x) THEN <<requiredMsg>> ELSE << >>)
    \o (IF ~IsFloatGtZero(x) THEN <<positiveMsg>> ELSE << >>)

\* validationResult(req).array() after currencyPairValidation
currencyPairValidation(body) ==
    CodeErrors(body.baseCurrency, "Source currency is required", TRUE)
    \o CodeErrors(body.targetCurrency, "Target currency is required", TRUE)
    \o NumberErrors(body.rate, "Exchange rate is required",
                    "Rate must be a positive number")

\* validationResult(req).array() after convertValidation
convertValidation(body) ==
    CodeErrors(body.baseCurrency, "Source currency is required", FALSE)
    \o CodeErrors(body.targetCurrency, "Target currency is required", FALSE)
    \o NumberErrors(body.amount, "Amount is required",
                    "Amount must be a positive number")

\* the body as the handler sees it: the chains' trim sanitizers write back
SanitizePairBody(body) ==
    [body EXCEPT !.baseCurrency = Trim(@), !.targetCurrency = Trim(@)]

MinUsername == 3
MinPassword == 6

\* a body without the field: the value undefined, which is no string
RoleAbsent == <<"undefined">>
ValidRoles == { <<"u", "s", "e", "r">>, <<"a", "d", "m", "i", "n">> }

\* validationResult(req).array() after registerValidation
registerValidation(body) ==
    LET u == Trim(body.username)
        p == Trim(body.password)
    IN  (IF Len(u) = 0 THEN <<"Username is required">> ELSE << >>)
        \o (IF Len(u) < MinUsername
            THEN <<"Username must be at least 3 characters long">> ELSE << >>)
        \o (IF Len(p) = 0 THEN <<"Password is required">> ELSE << >>)
        \o (IF Len(p) < MinPassword
            THEN <<"Password must be at least 6 characters long">> ELSE << >>)
        \o (IF body.role # RoleAbsent /\ body.role \notin ValidRoles
            THEN <<"Invalid role specified">> ELSE << >>)

\* validationResult(req).array() after loginValidation
loginValidation(body) ==
    (IF Len(Trim(body.username)) = 0 THEN <<"Username is required">> ELSE << >>)
    \o (IF Len(Trim(body.password)) = 0 THEN <<"Password is required">> ELSE << >>)

SanitizeCredentials(body) ==
    [body EXCEPT !.username = Trim(@), !.password = Trim(@)]


(***************************************************************************)
(* Credential Store and password hashing.                                  *)
(***************************************************************************)
UserRole == <<"u", "s", "e", "r">>
AdminRole == <<"a", "d", "m", "i", "n">>

\* bcryptjs reads 18 words of 4 bytes from the password for its key schedule
BcryptKeyBytes == 72
Nul == "NUL"

\* the bytes the key schedule reads: the password and its terminating NUL,
\* taken cyclically (characters are single bytes here)
BcryptKey(password) ==
    LET key == password \o <<Nul>>
    IN  [i \in 1..BcryptKeyBytes |-> key[((i - 1) % Len(key)) + 1]]

\* bcrypt.hash(password, salt): a function of the salt and of the key bytes
\* alone, so that passwords that agree on their first 72 bytes hash alike
BcryptHash(password, salt) ==
    [alg |-> "bcrypt", salt |-> salt, of |-> BcryptKey(password)]

\* bcrypt.compare(entered, hash): re-hash with the salt kept in the hash
BcryptCompare(entered, hash) == BcryptHash(entered, hash.salt) = hash

\* a comparison that accepts any password
matchPasswordAny(user, enteredPassword) == TRUE

matchPassword(user, enteredPassword) == BcryptCompare(enteredPassword, user.password)

\* a lookup that finds nobody
UsersNamedNobody(store, username) == {}

\* User.findOne({ username }): the ids of the matching records
UsersNamed(store, username) == {i \in DOMAIN store : store[i].username = username}

\* the unique indexes MongoDB holds for each collection: the user schema
\* declares one on username (unique: true and schema.index); the currency
\* pair schema passes an `indexes` key in the schema options, which Mongoose
\* does not read, so no index on (baseCurrency, targetCurrency) is built
UserUniqueIndexesNone == { }
UserUniqueIndexes == { <<"username">> }
PairUniqueIndexesDeclared == { <<"baseCurrency", "targetCurrency">> }
PairUniqueIndexes == { }

\* E11000: doc, stored under id, would repeat another record on a unique index
DuplicateKey(store, id, doc, indexes) ==
    \E idx \in indexes : \E j \in DOMAIN store :
        j # id /\ \A n \in 1..Len(idx) : store[j][idx[n]] = doc[idx[n]]

\* userSchema: the trim setter, the validators, and the pre('save') hook
\* that hashes a modified password
UserSchemaValid(username, password, role) ==
    Len(Trim(username)) > 0 /\ Len(password) >= MinPassword
    /\ role \in {UserRole, AdminRole}

UserDoc(username, password, role, salt) ==
    [username |-> Trim(username), password |-> BcryptHash(password, salt),
     role |-> role]

\* the insert User.create sends: ok is FALSE when the unique index rejects
\* the document.  User.create(...) as a whole: [ok, users]; ok is FALSE when
\* validation or the insert fails (the call throws)
InsertUser(store, id, doc) ==
    IF DuplicateKey(store, id, doc, UserUniqueIndexes)
    THEN [ok |-> FALSE, users |-> store]
    ELSE [ok |-> TRUE, users |-> [i \in DOMAIN store \cup {id} |->
                                    IF i = id THEN doc ELSE store[i]]]

CreateUser(store, id, username, password, role, salt) ==
    IF ~UserSchemaValid(username, password, role)
    THEN [ok |-> FALSE, users |-> store]
    ELSE InsertUser(store, id, UserDoc(username, password, role, salt))

\* the { id, username, role } object of the auth responses
UserView(store, id) ==
    [id |-> id, username |-> store[id].username, role |-> store[id].role]

(***************************************************************************)
(* JSON Web Tokens.                                                        *)
(***************************************************************************)
TokenLifetime == 30
JwtSecret == "JWT_SECRET"

\* jwt.sign({ id }, secret, { expiresIn: '30d' }) at time t
JwtSign(id, key, t) ==
    [kind |-> "jwt", id |-> id, iat |-> t, exp |-> t + TokenLifetime, key |-> key]

generateToken(id, t) == JwtSign(id, JwtSecret, t)

\* a verification that still accepts the token at its expiry time
JwtVerifiesLate(token, key, t) ==
    token.kind = "jwt" /\ token.key = key /\ t <= token.exp

\* jwt.verify(token, secret) at time t returns the payload; it throws on a
\* malformed token, a signature made with another key, and from exp on
JwtVerifies(token, key, t) ==
    token.kind = "jwt" /\ token.key = key /\ t < token.exp

(***************************************************************************)
(* Requests and responses.                                                 *)
(***************************************************************************)
Reply(status, body) == [status |-> status, body |-> body]

Failure(status, message) == Reply(status, [success |-> FALSE, message |-> message])

\* no response yet
NoResponse == [status |-> 0]

\* the catch block of the currency controllers, of loginUser and of
\* getUserProfile
ServerError(message) ==
    Reply(500, [success |-> FALSE, message |-> "Server Error", error |-> message])

\* an error object: name, code, message and statusCode (0 and "" where the
\* property is not set), and the validators' messages of a ValidationError
Error(name, code, message, statusCode, errors) ==
    [name |-> name, code |-> code, message |-> message, statusCode |-> statusCode,
     errors |-> errors]

\* new ErrorResponse(message, statusCode)
ErrorResponse(message, statusCode) == Error("Error", 0, message, statusCode, << >>)

\* String(array): the elements joined with commas
RECURSIVE JoinMessages(_)
JoinMessages(messages) ==
    IF Len(messages) = 0 THEN ""
    ELSE IF Len(messages) = 1 THEN messages[1]
    ELSE messages[1] \o "," \o JoinMessages(Tail(messages))

\* utils/errorHandler.js: the response for an error passed to next(err)
errorHandler(err) ==
    LET e0 == ErrorResponse(err.message, err.statusCode)
        e1 == IF err.name = "CastError" THEN ErrorResponse("Resource not found", 404)
              ELSE e0
        e2 == IF err.code = 11000
              THEN ErrorResponse("Duplicate field value entered", 400)
              ELSE e1
        e3 == IF err.name = "ValidationError"
              THEN ErrorResponse(JoinMessages(err.errors), 400)
              ELSE e2
    IN  Reply(IF e3.statusCode # 0 THEN e3.statusCode ELSE 500,
              [success |-> FALSE,
               error |-> IF e3.message # "" THEN e3.message ELSE "Server Error"])

\* the errors the storage layer throws
CastError == Error("CastError", 0, "Cast to ObjectId failed", 0, << >>)
DuplicateKeyError == Error("MongoServerError", 11000, "E11000 duplicate key error", 0, << >>)
DocumentNotFoundError ==
    Error("DocumentNotFoundError", 0, "No document found for query", 0, << >>)

\* An Authorization header: the text before its first space, and the pieces
\* that follow each space (tokens; the empty string between two spaces)
NoHeader == [present |-> FALSE]
Header(scheme, parts) == [present |-> TRUE, scheme |-> scheme, parts |-> parts]
Undefined == [kind |-> "undefined"]
EmptyString == [kind |-> "empty"]
Garbage == [kind |-> "garbage"]
BearerWord == <<"B", "e", "a", "r", "e", "r">>
Bearer(token) == Header(BearerWord, <<token>>)

(***************************************************************************)
(* authMiddleware.js.  protect awaits User.findById: protectVerify is the  *)
(* code before the await, protectFindById the lookup and the code after it.*)
(***************************************************************************)
\* lines 64-69: authorization.split(' ')[1] of a header that starts with
\* 'Bearer'
TokenOf(h) ==
    IF h.present /\ StartsWith(h.scheme, BearerWord)
    THEN (IF Len(h.parts) >= 1 THEN h.parts[1] ELSE Undefined)
    ELSE Undefined

\* lines 64-80: [next, id] with the decoded id when the request goes on to
\* the lookup, [next, res] when it is answered
protectVerify(h, t) ==
    LET token == TokenOf(h)
    IN  IF token.kind \in {"undefined", "empty"}
        THEN [next |-> FALSE, res |-> Failure(401, "Not authorized to access this route")]
        ELSE IF ~JwtVerifies(token, JwtSecret, t)
        THEN [next |-> FALSE, res |-> Failure(401, "Not authorized to access this route")]
        ELSE [next |-> TRUE, id |-> token.id]

\* a lookup that takes the role the user had when the first tokens were
\* issued instead of the stored one
protectStaleRole(id) ==
    IF id \notin DOMAIN users
    THEN [next |-> FALSE, res |-> Failure(401, "User not found")]
    ELSE [next |-> TRUE,
          user |-> [id |-> id, username |-> users[id].username,
                    role |-> IF id = 1 THEN AdminRole ELSE UserRole]]

\* lines 83-92: [next, user] with req.user, or [next, res]
protectFindById(id) ==
    IF id \notin DOMAIN users
    THEN [next |-> FALSE, res |-> Failure(401, "User not found")]
    ELSE [next |-> TRUE, user |-> UserView(users, id)]

\* a role check that lets every authenticated user through
adminLetsAll(user) == [next |-> TRUE]

\* admin: runs after protect, on req.user
admin(user) ==
    IF user.role = AdminRole THEN [next |-> TRUE]
    ELSE [next |-> FALSE, res |-> Failure(403, "Not authorized as an admin")]

(***************************************************************************)
(* currencyPairModel.js                                                    *)
(***************************************************************************)
\* currencyPairSchema: required codes and rate, rate min 0
PairSchemaValid(doc) ==
    Len(doc.baseCurrency) > 0 /\ Len(doc.targetCurrency) > 0 /\ doc.rate >= 0

\* the schema's trim and uppercase setters on the two codes
PairSetCode(code) == ToUpperCase(Trim(code))

\* a lookup that also takes the reverse pair
PairsMatchingEitherWay(store, base, target) ==
    {i \in DOMAIN store :
        \/ store[i].baseCurrency = base /\ store[i].targetCurrency = target
        \/ store[i].baseCurrency = target /\ store[i].targetCurrency = base}

\* a lookup that finds no record
PairsMatchingNone(store, base, target) == {}

\* CurrencyPair.findOne({ baseCurrency, targetCurrency }): the matching ids
PairsMatching(store, base, target) ==
    {i \in DOMAIN store :
        store[i].baseCurrency = base /\ store[i].targetCurrency = target}

\* findOne returns the first match in natural (insertion) order
FirstOf(ids) == CHOOSE i \in ids : \A j \in ids : i <= j

\* ObjectId casting of a route parameter: 0 stands for a string that is no
\* ObjectId, for which findById throws a CastError
IsObjectId(id) == id >= 1

\* a hook that refreshes lastUpdated on every save
PreSaveAlways(old, new, t) == [new EXCEPT !.lastUpdated = t]

\* pre('save'): lastUpdated is refreshed when the rate is modified; a path is
\* modified when it was set to a value that differs from the loaded one
PreSave(old, new, t) ==
    IF new.rate # old.rate THEN [new EXCEPT !.lastUpdated = t] ELSE new

PairPaths == {"baseCurrency", "targetCurrency", "rate", "lastUpdated"}

\* the paths save() writes: those whose value differs from the loaded one,
\* and lastUpdated whenever the hook has assigned it a new Date
ModifiedPaths(old, new) ==
    {f \in PairPaths : new[f] # old[f]}
    \cup (IF new.rate # old.rate THEN {"lastUpdated"} ELSE {})

\* Model.create(): the insert of a new document: [ok, pairs]
SavePair(store, id, doc) ==
    IF ~PairSchemaValid(doc) \/ DuplicateKey(store, id, doc, PairUniqueIndexes)
    THEN [ok |-> FALSE, pairs |-> store]
    ELSE [ok |-> TRUE, pairs |-> [i \in DOMAIN store \cup {id} |->
                                    IF i = id THEN doc ELSE store[i]]]

\* document.save() of a loaded document: updateOne({ _id }, { $set: the
\* modified paths }); ok is FALSE when no record has the id any more
UpdatePair(store, id, doc, paths) ==
    IF id \notin DOMAIN store
    THEN [ok |-> FALSE, pairs |-> store]
    ELSE [ok |-> TRUE,
          pairs |-> [store EXCEPT ![id] =
                        [f \in PairPaths |-> IF f \in paths THEN doc[f] ELSE store[id][f]]]]

\* document.deleteOne(): deleteOne({ _id }), which removes at most one record
DeletePair(store, id) == [i \in DOMAIN store \ {id} |-> store[i]]

\* a document as a response carries it
PairView(id, doc) ==
    [id |-> id, baseCurrency |-> doc.baseCurrency,
     targetCurrency |-> doc.targetCurrency, rate |-> doc.rate,
     lastUpdated |-> doc.lastUpdated]

\* methods.convert(amount): [ok, value]; value is Number((amount *
\* rate).toFixed(2)) in hundredths; ok is FALSE when the method throws.
\* Infinity times a positive rate is Infinity, which toFixed and Number keep
convert(pair, amount) ==
    IF Falsy(amount) \/ IsNaN(amount) \/ LessZero(amount)
    THEN [ok |-> FALSE, error |-> "Invalid amount for conversion"]
    ELSE IF amount.k = "inf"
    THEN [ok |-> TRUE, value |-> Infinite]
    ELSE [ok |-> TRUE,
          value |-> ToFixed2(DoubleMul(DoubleOfDecimal(amount.v),
                                       DoubleOfDecimal(pair.rate)))]

(***************************************************************************)
(* currencyController.js.  A handler gives way at each await, so each      *)
(* handler is given await by await: a query or write on the store together *)
(* with the code that runs when it returns, up to the next await or the    *)
(* response.  A part that ends the request returns its response in res, a  *)
(* part that goes on returns res = NoResponse and what the next part needs.*)
(***************************************************************************)
\* the orders CurrencyPair.find().sort({ baseCurrency: 1 }) may return: every
\* arrangement of the ids that is ascending in baseCurrency (MongoDB leaves
\* the order of records with equal sort keys open)
SortedListings(store) ==
    {o \in [1..Cardinality(DOMAIN store) -> DOMAIN store] :
        /\ \A i, j \in DOMAIN o : i # j => o[i] # o[j]
        /\ \A i, j \in DOMAIN o :
            i < j => ~StrLess(store[o[j]].baseCurrency, store[o[i]].baseCurrency)}

\* getCurrencyPairs, for the order the query returned
getCurrencyPairs(order) ==
    Reply(200, [success |-> TRUE,
                data |-> [i \in DOMAIN order |-> PairView(order[i], pairs[order[i]])]])

\* the 400 of a handler whose validationResult is not empty
ValidationFailure(errors) == Reply(400, [success |-> FALSE, errors |-> errors])

\* createCurrencyPair up to `await CurrencyPair.create`: validationResult,
\* the findOne, and the document that create() builds, validates and runs
\* the pre('save') hook on before it sends the insert
createCurrencyPairFindOne(rawBody) ==
    LET errors == currencyPairValidation(rawBody)
        body == SanitizePairBody(rawBody)
        base == ToUpperCase(body.baseCurrency)
        target == ToUpperCase(body.targetCurrency)
        existing == PairsMatching(pairs, base, target)
    IN  IF Len(errors) > 0
        THEN [res |-> ValidationFailure(errors)]
        ELSE IF existing # {}
        THEN [res |-> Failure(400, "Currency pair already exists")]
        ELSE LET doc == [baseCurrency |-> PairSetCode(base),
                         targetCurrency |-> PairSetCode(target),
                         rate |-> body.rate.v, lastUpdated |-> now]
             IN  IF ~PairSchemaValid(doc)
                 THEN [res |-> ServerError("CurrencyPair validation failed")]
                 ELSE [res |-> NoResponse, doc |-> doc, paths |-> PairPaths]

\* createCurrencyPair from the insert on: [res, pairs, created]
createCurrencyPairCreate(doc) ==
    LET saved == SavePair(pairs, nextPairId, doc)
    IN  IF ~saved.ok
        THEN [res |-> ServerError(DuplicateKeyError.message),
              pairs |-> pairs, created |-> FALSE]
        ELSE [res |-> Reply(201, [success |-> TRUE, data |-> PairView(nextPairId, doc)]),
              pairs |-> saved.pairs, created |-> TRUE]

\* an update that looks the record up before it reads the validation result
updateCurrencyPairLookupFirst(id, rawBody) ==
    IF id \notin DOMAIN pairs
    THEN [res |-> Failure(404, "Currency pair not found")]
    ELSE IF Len(currencyPairValidation(rawBody)) > 0
    THEN [res |-> ValidationFailure(currencyPairValidation(rawBody))]
    ELSE [res |-> NoResponse, doc |-> pairs[id], paths |-> {}]

\* updateCurrencyPair up to `await currencyPair.save()`: validationResult,
\* the findById, the assignments, and the validation and pre('save') hook
\* that save() runs before it sends the update
updateCurrencyPairFindById(id, rawBody) ==
    LET errors == currencyPairValidation(rawBody)
        body == SanitizePairBody(rawBody)
    IN  IF Len(errors) > 0
        THEN [res |-> ValidationFailure(errors)]
        ELSE IF ~IsObjectId(id)
        THEN [res |-> ServerError(CastError.message)]
        ELSE IF id \notin DOMAIN pairs
        THEN [res |-> Failure(404, "Currency pair not found")]
        ELSE LET old == pairs[id]
                 d1 == IF ~Falsy(body.rate) THEN [old EXCEPT !.rate = body.rate.v]
                       ELSE old
                 d2 == IF Len(body.baseCurrency) > 0
                       THEN [d1 EXCEPT !.baseCurrency =
                                PairSetCode(ToUpperCase(body.baseCurrency))]
                       ELSE d1
                 d3 == IF Len(body.targetCurrency) > 0
                       THEN [d2 EXCEPT !.targetCurrency =
                                PairSetCode(ToUpperCase(body.targetCurrency))]
                       ELSE d2
                 new == PreSave(old, d3, now)
             IN  IF ~PairSchemaValid(new)
                 THEN [res |-> ServerError("CurrencyPair validation failed")]
                 ELSE [res |-> NoResponse, doc |-> new, paths |-> ModifiedPaths(old, new)]

\* updateCurrencyPair from the update on: [res, pairs]; the response shows
\* the document the handler holds
updateCurrencyPairSave(id, doc, paths) ==
    LET saved == UpdatePair(pairs, id, doc, paths)
    IN  IF ~saved.ok
        THEN [res |-> ServerError(DocumentNotFoundError.message), pairs |-> pairs]
        ELSE [res |-> Reply(200, [success |-> TRUE, data |-> PairView(id, doc)]),
              pairs |-> saved.pairs]

\* deleteCurrencyPair up to `await currencyPair.deleteOne()`
deleteCurrencyPairFindById(id) ==
    IF ~IsObjectId(id)
    THEN [res |-> ServerError(CastError.message)]
    ELSE IF id \notin DOMAIN pairs
    THEN [res |-> Failure(404, "Currency pair not found")]
    ELSE [res |-> NoResponse, doc |-> pairs[id], paths |-> {}]

\* a delete that removes the reverse pair with the record
deleteCurrencyPairBothWays(id, doc) ==
    LET gone == {id} \cup PairsMatching(pairs, doc.targetCurrency, doc.baseCurrency)
    IN  [res |-> Reply(200, [success |-> TRUE, message |-> "Currency pair removed"]),
         pairs |-> [i \in DOMAIN pairs \ gone |-> pairs[i]]]

\* deleteCurrencyPair from the deleteOne on: [res, pairs]
deleteCurrencyPairDeleteOne(id, doc) ==
    [res |-> Reply(200, [success |-> TRUE, message |-> "Currency pair removed"]),
     pairs |-> DeletePair(pairs, id)]

\* convertCurrency; it does not consult validationResult: the chain's only
\* effect on it is the trimming of the two codes
convertCurrency(rawBody) ==
    LET body == SanitizePairBody(rawBody)
        amount == body.amount
        found == PairsMatching(pairs, ToUpperCase(body.baseCurrency),
                               ToUpperCase(body.targetCurrency))
    IN  IF Falsy(amount) \/ LeqZero(amount)
        THEN Failure(400, "Please provide a valid amount")
        ELSE IF found = {}
        THEN Failure(404, "Currency pair not found")
        ELSE LET pair == pairs[FirstOf(found)]
                 converted == convert(pair, amount)
             IN  IF ~converted.ok
                 THEN ServerError(converted.error)
                 ELSE Reply(200,
                          [success |-> TRUE,
                           data |-> [baseCurrency |-> pair.baseCurrency,
                                     targetCurrency |-> pair.targetCurrency,
                                     amount |-> amount,
                                     convertedAmount |-> converted.value,
                                     rate |-> pair.rate]])

(***************************************************************************)
(* authController.js                                                       *)
(***************************************************************************)
\* a registration that trusts the role of the body
RegisteredRoleFromBody(body) == IF body.role \in ValidRoles THEN body.role ELSE UserRole

\* the role registerUser stores: always "user", whatever the body says
RegisteredRole(body) == UserRole

\* a failure that tells an unknown user from a wrong password
LoginFailureRevealing(found) ==
    IF found = {} THEN Failure(401, "User not found")
    ELSE Failure(401, "Invalid password")

\* the answer to a login that found no user or a password that does not match
LoginFailure(found) == Failure(401, "Invalid username or password")

\* the response of registerUser's catch block
RegistrationFailed == Failure(500, "Registration failed. Please try again.")

\* registerUser up to `await User.findOne`: validationResult and the checks
\* of the two fields
registerUserValidate(rawBody) ==
    LET errors == registerValidation(rawBody)
        body == SanitizeCredentials(rawBody)
        username == body.username
        password == body.password
    IN  IF Len(errors) > 0 THEN Failure(400, errors[1])
        ELSE IF Len(username) = 0 \/ Len(password) = 0
        THEN Failure(400, "Please provide both username and password")
        ELSE IF Len(username) < MinUsername
        THEN Failure(400, "Username must be at least 3 characters long")
        ELSE IF Len(password) < MinPassword
        THEN Failure(400, "Password must be at least 6 characters long")
        ELSE NoResponse

\* registerUser from the findOne to the insert of `await User.create`: the
\* check of the name, and the document create() builds, validates and hashes
\* the password of before it sends the insert
registerUserFindOne(rawBody, salt) ==
    LET body == SanitizeCredentials(rawBody)
        username == body.username
        password == body.password
    IN  IF UsersNamed(users, username) # {}
        THEN [res |-> Failure(400, "Username already exists")]
        ELSE IF ~UserSchemaValid(username, password, RegisteredRole(body))
        THEN [res |-> RegistrationFailed]
        ELSE [res |-> NoResponse,
              doc |-> UserDoc(username, password, RegisteredRole(body), salt),
              paths |-> {}]

\* registerUser from the insert on: [res, users, created, tokens]
registerUserCreate(doc) ==
    LET made == InsertUser(users, nextUserId, doc)
        token == generateToken(nextUserId, now)
    IN  IF ~made.ok
        THEN [res |-> RegistrationFailed,
              users |-> users, created |-> FALSE, tokens |-> {}]
        ELSE [res |-> Reply(201, [success |-> TRUE,
                                  user |-> UserView(made.users, nextUserId),
                                  token |-> token]),
              users |-> made.users, created |-> TRUE, tokens |-> {token}]

\* loginUser up to `await User.findOne`: validationResult
loginUserValidate(rawBody) ==
    LET errors == loginValidation(rawBody)
    IN  IF Len(errors) > 0 THEN ValidationFailure(errors) ELSE NoResponse

\* loginUser from the findOne to `await user.matchPassword`: [res] when no
\* user is found, else the document the handler holds from then on
loginUserFindOne(rawBody) ==
    LET body == SanitizeCredentials(rawBody)
        found == UsersNamed(users, body.username)
    IN  IF found = {} THEN [res |-> LoginFailure(found)]
        ELSE [res |-> NoResponse, user |-> [id |-> FirstOf(found)],
              doc |-> users[FirstOf(found)], paths |-> {}]

\* a login that saves the user again, hashing the entered password
loginUserSaving(id, doc, rawBody) ==
    [res |-> Failure(401, "Invalid username or password"),
     users |-> [i \in DOMAIN users |->
                  IF i = id
                  THEN [users[i] EXCEPT !.password =
                           BcryptHash(SanitizeCredentials(rawBody).password, "salt2")]
                  ELSE users[i]],
     tokens |-> {}]

\* loginUser from the result of matchPassword on: [res, users, tokens]; the
\* password is compared with the hash of the document the findOne returned,
\* the response shows that document, and the token is signed now
loginUserCompare(id, doc, rawBody) ==
    LET body == SanitizeCredentials(rawBody)
        token == generateToken(id, now)
    IN  IF matchPassword(doc, body.password)
        THEN [res |-> Reply(200, [success |-> TRUE,
                                  user |-> UserView([i \in {id} |-> doc], id),
                                  token |-> token]),
              users |-> users, tokens |-> {token}]
        ELSE [res |-> LoginFailure({id}), users |-> users, tokens |-> {}]

\* getUserProfile: runs after protect, on req.user
getUserProfile(user) ==
    IF user.id \in DOMAIN users
    THEN Reply(200, [success |-> TRUE, user |-> UserView(users, user.id)])
    ELSE Failure(404, "User not found")

(***************************************************************************)
(* scripts/createAdmin.js: seeds the privileged account out of band.       *)
(***************************************************************************)
AdminName == <<"a", "d", "m", "i", "n", "g", "r">>
AdminPassword == <<"a", "d", "m", "i", "n", "1", "2", "3">>

createAdmin(salt) == CreateUser(users, nextUserId, AdminName, AdminPassword, AdminRole, salt)

(***************************************************************************)
(* Routes.  A request is a process: it enters with the code that runs      *)
(* before its first await and then advances one await at a time, so that   *)
(* the requests in flight interleave at their awaits.  flight holds the     *)
(* requests that wait; pc says where: in protect's User.findById            *)
(* ("protect"), in the first query of the handler ("handler"), in the      *)
(* handler's write ("write"), or in loginUser's matchPassword ("compare"). *)
(* req, ran and res hold the last response until it is delivered.  The     *)
(* clock is read once in each step.  A request arrives only while fewer    *)
(* than room requests wait.                                                *)
(***************************************************************************)
NoRequest == [op |-> "none"]

Ready == req = NoRequest

Request(op, header, id, body) == [op |-> op, header |-> header, id |-> id, body |-> body]

NoBody == [none |-> TRUE]
NoUser == [id |-> 0]
NoDoc == [none |-> TRUE]

Process(r, pc, user, doc, paths) ==
    [r |-> r, pc |-> pc, user |-> user, doc |-> doc, paths |-> paths]

RemoveAt(seq, k) == SubSeq(seq, 1, k - 1) \o SubSeq(seq, k + 1, Len(seq))

\* the routes behind admin
AdminOps == {"create", "update", "delete"}

\* the middleware and the handler of each route, in the order of the router
Chain(op) ==
    CASE op = "register" -> <<"registerValidation", "registerUser">>
      [] op = "login" -> <<"loginValidation", "loginUser">>
      [] op = "profile" -> <<"protect", "getUserProfile">>
      [] op = "list" -> <<"protect", "getCurrencyPairs">>
      [] op = "convert" -> <<"protect", "convertValidation", "convertCurrency">>
      [] op = "create" -> <<"protect", "admin", "currencyPairValidation",
                            "createCurrencyPair">>
      [] op = "update" -> <<"protect", "admin", "currencyPairValidation",
                            "updateCurrencyPair">>
      [] op = "delete" -> <<"protect", "admin", "deleteCurrencyPair">>

\* a request answered before its first await
Answer(r, trace, response) ==
    /\ req' = r
    /\ ran' = trace
    /\ res' = response
    /\ UNCHANGED <<users, pairs, nextUserId, nextPairId, now, issued, flight>>

\* a request that enters its first await
Enter(p) ==
    /\ flight' = Append(flight, p)
    /\ UNCHANGED <<users, pairs, nextUserId, nextPairId, now, issued, req, ran, res>>

\* the k-th waiting request is answered
Respond(k, response) ==
    /\ req' = flight[k].r
    /\ ran' = Chain(flight[k].r.op)
    /\ res' = response
    /\ flight' = RemoveAt(flight, k)

\* the k-th waiting request goes on to its write
Write(k, out) ==
    /\ flight' = [flight EXCEPT ![k].pc = "write", ![k].doc = out.doc,
                                ![k].paths = out.paths]
    /\ UNCHANGED <<req, ran, res>>

\* a request to a protected route reaches protect: lines 62-80
Admit(r) ==
    LET v == protectVerify(r.header, now)
    IN  IF ~v.next THEN Answer(r, <<"protect">>, v.res)
        ELSE Enter(Process(r, "protect", [id |-> v.id], NoDoc, {}))

\* POST /api/auth/register: the validation chains and registerUser up to its
\* findOne
Register(bodies, room) ==
    /\ Ready
    /\ Len(flight) < room
    /\ \E b \in bodies :
        LET r == Request("register", NoHeader, 0, b)
        IN  IF registerUserValidate(b).status # 0
            THEN Answer(r, Chain("register"), registerUserValidate(b))
            ELSE Enter(Process(r, "handler", NoUser, NoDoc, {}))

\* registerUser: its findOne, up to the insert; the hook draws the salt
RegisterFindOne(salts) ==
    /\ Ready
    /\ \E k \in DOMAIN flight, s \in salts :
        LET out == registerUserFindOne(flight[k].r.body, s)
        IN  /\ flight[k].r.op = "register"
            /\ flight[k].pc = "handler"
            /\ IF out.res.status # 0 THEN Respond(k, out.res) ELSE Write(k, out)
    /\ UNCHANGED <<users, pairs, nextUserId, nextPairId, now, issued>>

\* POST /api/auth/register: the insert, and registerUser to its end
RegisterCreate ==
    /\ Ready
    /\ \E k \in DOMAIN flight :
        LET out == registerUserCreate(flight[k].doc)
        IN  /\ flight[k].r.op = "register"
            /\ flight[k].pc = "write"
            /\ out.created => nextUserId <= MaxUsers
            /\ Cardinality(issued \cup out.tokens) <= MaxTokens
            /\ Respond(k, out.res)
            /\ users' = out.users
            /\ nextUserId' = IF out.created THEN nextUserId + 1 ELSE nextUserId
            /\ issued' = issued \cup out.tokens
            /\ UNCHANGED <<pairs, nextPairId, now>>

\* POST /api/auth/login: the validation chains and loginUser up to its
\* findOne
Login(bodies, room) ==
    /\ Ready
    /\ Len(flight) < room
    /\ \E b \in bodies :
        LET r == Request("login", NoHeader, 0, b)
        IN  IF loginUserValidate(b).status # 0
            THEN Answer(r, Chain("login"), loginUserValidate(b))
            ELSE Enter(Process(r, "handler", NoUser, NoDoc, {}))

\* loginUser: its findOne, up to the comparison of the password
LoginFindOne ==
    /\ Ready
    /\ \E k \in DOMAIN flight :
        LET out == loginUserFindOne(flight[k].r.body)
        IN  /\ flight[k].r.op = "login"
            /\ flight[k].pc = "handler"
            /\ IF out.res.status # 0 THEN Respond(k, out.res)
               ELSE /\ flight' = [flight EXCEPT ![k].pc = "compare",
                                               ![k].user = out.user,
                                               ![k].doc = out.doc]
                    /\ UNCHANGED <<req, ran, res>>
    /\ UNCHANGED <<users, pairs, nextUserId, nextPairId, now, issued>>

\* loginUser from the result of the comparison on
LoginCompare ==
    /\ Ready
    /\ \E k \in DOMAIN flight :
        LET out == loginUserCompare(flight[k].user.id, flight[k].doc, flight[k].r.body)
        IN  /\ flight[k].r.op = "login"
            /\ flight[k].pc = "compare"
            /\ Cardinality(issued \cup out.tokens) <= MaxTokens
            /\ Respond(k, out.res)
            /\ users' = out.users
            /\ issued' = issued \cup out.tokens
    /\ UNCHANGED <<pairs, nextUserId, nextPairId, now>>

\* GET /api/auth/profile
Profile(headers, room) ==
    /\ Ready
    /\ Len(flight) < room
    /\ \E h \in headers : Admit(Request("profile", h, 0, NoBody))

\* GET /api/currency
List(headers, room) ==
    /\ Ready
    /\ Len(flight) < room
    /\ \E h \in headers : Admit(Request("list", h, 0, NoBody))

\* POST /api/currency/convert
Convert(headers, bodies, room) ==
    /\ Ready
    /\ Len(flight) < room
    /\ \E h \in headers, b \in bodies : Admit(Request("convert", h, 0, b))

\* POST /api/currency
Create(headers, bodies, room) ==
    /\ Ready
    /\ Len(flight) < room
    /\ \E h \in headers, b \in bodies : Admit(Request("create", h, 0, b))

\* PUT /api/currency/:id
Update(headers, ids, bodies, room) ==
    /\ Ready
    /\ Len(flight) < room
    /\ \E h \in headers, id \in ids, b \in bodies :
        Admit(Request("update", h, id, b))

\* DELETE /api/currency/:id
Delete(headers, ids, room) ==
    /\ Ready
    /\ Len(flight) < room
    /\ \E h \in headers, id \in ids : Admit(Request("delete", h, id, NoBody))

\* protect from its User.findById on (lines 83-92), and admin on the routes
\* that have it
ProtectFindById ==
    /\ Ready
    /\ \E k \in DOMAIN flight :
        LET p == flight[k]
            found == protectFindById(p.user.id)
        IN  /\ p.pc = "protect"
            /\ IF ~found.next
               THEN /\ req' = p.r
                    /\ ran' = <<"protect">>
                    /\ res' = found.res
                    /\ flight' = RemoveAt(flight, k)
               ELSE IF p.r.op \in AdminOps /\ ~admin(found.user).next
               THEN /\ req' = p.r
                    /\ ran' = <<"protect", "admin">>
                    /\ res' = admin(found.user).res
                    /\ flight' = RemoveAt(flight, k)
               ELSE /\ flight' = [flight EXCEPT ![k].pc = "handler",
                                               ![k].user = found.user]
                    /\ UNCHANGED <<req, ran, res>>
    /\ UNCHANGED <<users, pairs, nextUserId, nextPairId, now, issued>>

\* getUserProfile: its User.findById and the response
ProfileFindById ==
    /\ Ready
    /\ \E k \in DOMAIN flight :
        /\ flight[k].r.op = "profile"
        /\ flight[k].pc = "handler"
        /\ Respond(k, getUserProfile(flight[k].user))
    /\ UNCHANGED <<users, pairs, nextUserId, nextPairId, now, issued>>

\* getCurrencyPairs: its find().sort() and the response
ListFind ==
    /\ Ready
    /\ \E k \in DOMAIN flight, order \in SortedListings(pairs) :
        /\ flight[k].r.op = "list"
        /\ flight[k].pc = "handler"
        /\ Respond(k, getCurrencyPairs(order))
    /\ UNCHANGED <<users, pairs, nextUserId, nextPairId, now, issued>>

\* convertCurrency: its findOne and the response
ConvertFindOne ==
    /\ Ready
    /\ \E k \in DOMAIN flight :
        /\ flight[k].r.op = "convert"
        /\ flight[k].pc = "handler"
        /\ Respond(k, convertCurrency(flight[k].r.body))
    /\ UNCHANGED <<users, pairs, nextUserId, nextPairId, now, issued>>

\* createCurrencyPair up to the insert
CreateFindOne ==
    /\ Ready
    /\ \E k \in DOMAIN flight :
        LET out == createCurrencyPairFindOne(flight[k].r.body)
        IN  /\ flight[k].r.op = "create"
            /\ flight[k].pc = "handler"
            /\ IF out.res.status # 0 THEN Respond(k, out.res) ELSE Write(k, out)
    /\ UNCHANGED <<users, pairs, nextUserId, nextPairId, now, issued>>

\* createCurrencyPair from the insert on
CreateInsert ==
    /\ Ready
    /\ \E k \in DOMAIN flight :
        LET out == createCurrencyPairCreate(flight[k].doc)
        IN  /\ flight[k].r.op = "create"
            /\ flight[k].pc = "write"
            /\ out.created => nextPairId <= MaxPairs
            /\ Respond(k, out.res)
            /\ pairs' = out.pairs
            /\ nextPairId' = IF out.created THEN nextPairId + 1 ELSE nextPairId
    /\ UNCHANGED <<users, nextUserId, now, issued>>

\* updateCurrencyPair up to the update that save() sends
UpdateFindById ==
    /\ Ready
    /\ \E k \in DOMAIN flight :
        LET out == updateCurrencyPairFindById(flight[k].r.id, flight[k].r.body)
        IN  /\ flight[k].r.op = "update"
            /\ flight[k].pc = "handler"
            /\ IF out.res.status # 0 THEN Respond(k, out.res) ELSE Write(k, out)
    /\ UNCHANGED <<users, pairs, nextUserId, nextPairId, now, issued>>

\* updateCurrencyPair from the update on
UpdateSave ==
    /\ Ready
    /\ \E k \in DOMAIN flight :
        LET out == updateCurrencyPairSave(flight[k].r.id, flight[k].doc, flight[k].paths)
        IN  /\ flight[k].r.op = "update"
            /\ flight[k].pc = "write"
            /\ Respond(k, out.res)
            /\ pairs' = out.pairs
    /\ UNCHANGED <<users, nextUserId, nextPairId, now, issued>>

\* deleteCurrencyPair up to the deleteOne
DeleteFindById ==
    /\ Ready
    /\ \E k \in DOMAIN flight :
        LET out == deleteCurrencyPairFindById(flight[k].r.id)
        IN  /\ flight[k].r.op = "delete"
            /\ flight[k].pc = "handler"
            /\ IF out.res.status # 0 THEN Respond(k, out.res) ELSE Write(k, out)
    /\ UNCHANGED <<users, pairs, nextUserId, nextPairId, now, issued>>

\* deleteCurrencyPair from the deleteOne on
DeleteDeleteOne ==
    /\ Ready
    /\ \E k \in DOMAIN flight :
        LET out == deleteCurrencyPairDeleteOne(flight[k].r.id, flight[k].doc)
        IN  /\ flight[k].r.op = "delete"
            /\ flight[k].pc = "write"
            /\ Respond(k, out.res)
            /\ pairs' = out.pairs
    /\ UNCHANGED <<users, nextUserId, nextPairId, now, issued>>

(***************************************************************************)
(* The environment: the clock, the seeding script and the administrative   *)
(* changes of a user record, none of which is a request.                   *)
(***************************************************************************)
Idle ==
    /\ req' = NoRequest
    /\ ran' = << >>
    /\ res' = NoResponse

\* the response reaches the client
Deliver ==
    /\ ~Ready
    /\ Idle
    /\ UNCHANGED <<users, pairs, nextUserId, nextPairId, now, issued, flight>>

\* time passes: step days, up to the limit
Tick(step, limit) ==
    /\ Ready
    /\ now + step <= limit
    /\ now' = now + step
    /\ Idle
    /\ UNCHANGED <<users, pairs, nextUserId, nextPairId, issued, flight>>

\* node scripts/createAdmin.js
SeedAdmin(salts) ==
    \E s \in salts :
        /\ Ready
        /\ nextUserId <= MaxUsers
        /\ createAdmin(s).ok
        /\ users' = createAdmin(s).users
        /\ nextUserId' = nextUserId + 1
        /\ Idle
        /\ UNCHANGED <<pairs, nextPairId, now, issued, flight>>

\* a user record is removed by an administrator, outside the API
ExternalDeleteUser ==
    \E id \in DOMAIN users :
        /\ Ready
        /\ users' = [i \in DOMAIN users \ {id} |-> users[i]]
        /\ Idle
        /\ UNCHANGED <<pairs, nextUserId, nextPairId, now, issued, flight>>

\* the role of a user record is changed by an administrator, outside the API
ExternalSetRole ==
    \E id \in DOMAIN users, role \in {UserRole, AdminRole} :
        /\ Ready
        /\ users[id].role # role
        /\ users' = [users EXCEPT ![id].role = role]
        /\ Idle
        /\ UNCHANGED <<pairs, nextUserId, nextPairId, now, issued, flight>>

(***************************************************************************)
(* The inputs the model draws requests from.                               *)
(***************************************************************************)
NameAbc == <<"a", "b", "c">>
NameAbcPadded == <<" ", "a", "b", "c", " ">>
NameBob == <<"b", "o", "b">>
NameShort == <<"a", "b">>
Blank == <<" ", " ", " ">>

PassSecret == <<"s", "e", "c", "r", "e", "t">>
PassSecretPadded == <<" ", "s", "e", "c", "r", "e", "t">>
PassOther == <<"S", "e", "c", "r", "e", "t">>
PassShort == <<"a", "b", "c", "d", "e">>

\* two passwords of 73 bytes that differ in the last one
PassLong == [i \in 1..BcryptKeyBytes |-> "a"] \o <<"b">>
PassLongOther == [i \in 1..BcryptKeyBytes |-> "a"] \o <<"c">>

RoleRoot == <<"r", "o", "o", "t">>
RoleEmpty == << >>

Salts == {"salt1", "salt2"}

RegisterBodies ==
    [username : {NameAbc, NameAbcPadded, NameBob, NameShort, Blank},
     password : {PassSecret, PassSecretPadded, PassShort, PassLong},
     role : {RoleAbsent, AdminRole, RoleRoot, RoleEmpty}]

LoginBodies ==
    [username : {NameAbc, NameAbcPadded, NameBob, Blank, AdminName},
     password : {PassSecret, PassSecretPadded, PassOther, Blank, AdminPassword,
                 PassLong, PassLongOther}]

USD == <<"U", "S", "D">>
EUR == <<"E", "U", "R">>
UsdLower == <<"u", "s", "d">>
EurLower == <<"e", "u", "r">>
UsdPadded == <<" ", "U", "S", "D">>
GBP == <<"G", "B", "P">>
CodeShort == <<"U", "S">>
CodeEmpty == << >>

PairBody(base, target, rate) ==
    [baseCurrency |-> base, targetCurrency |-> target, rate |-> rate]

PairBodies ==
    { PairBody(USD, EUR, Num(850)), PairBody(USD, EUR, Num(1200)),
      PairBody(EUR, USD, Num(1200)), PairBody(UsdPadded, EUR, Num(850)),
      PairBody(UsdLower, EurLower, Num(850)), PairBody(CodeShort, EUR, Num(850)),
      PairBody(CodeEmpty, EUR, Num(850)), PairBody(USD, EUR, Num(0)),
      PairBody(USD, EUR, Num(0 - 1000)), PairBody(USD, EUR, Absent),
      PairBody(USD, GBP, Num(1200)), PairBody(CodeEmpty, CodeEmpty, Num(1200)) }

ConvertBody(base, target, amount) ==
    [baseCurrency |-> base, targetCurrency |-> target, amount |-> amount]

ConvertBodies ==
    { ConvertBody(c[1], c[2], a) :
        c \in { <<USD, EUR>>, <<UsdLower, EurLower>>, <<EUR, USD>>, <<EUR, EUR>>,
                <<UsdPadded, EUR>>, <<EUR, GBP>> },
        a \in { Num(100000), Num(500), Num(0), Num(0 - 5000), Absent, NotANumber,
                Infinite } }

\* route parameters: 0 is no ObjectId, MaxPairs + 1 is never stored
PairIds == 0..(MaxPairs + 1)

Forge(token) == [token EXCEPT !.key = "another secret"]
BasicWord == <<"B", "a", "s", "i", "c">>
BearerXWord == <<"B", "e", "a", "r", "e", "r", "x">>

\* the headers a client can send, holding the tokens it can hold
HeadersWith(tokens) ==
    { NoHeader, Bearer(Garbage), Header(BearerWord, << >>) }
    \cup { Bearer(t) : t \in tokens }
    \cup { Bearer(Forge(t)) : t \in tokens }
    \cup { Header(BasicWord, <<t>>) : t \in tokens }
    \cup { Header(BearerXWord, <<t>>) : t \in tokens }
    \cup { Header(BearerWord, <<EmptyString, t>>) : t \in tokens }
    \cup { Header(BearerWord, <<t, Garbage>>) : t \in tokens }

BearerHeaders(tokens) == { Bearer(t) : t \in tokens }

(***************************************************************************)
(* Specifications.  Where requests are served one at a time, a request     *)
(* enters only while none is waiting (room 1); the clock and the           *)
(* administrative changes still come between the awaits of a request.      *)
(***************************************************************************)
Init ==
    /\ users = << >>
    /\ pairs = << >>
    /\ nextUserId = 1
    /\ nextPairId = 1
    /\ now = 0
    /\ issued = {}
    /\ req = NoRequest
    /\ ran = << >>
    /\ res = NoResponse
    /\ flight = << >>

\* the whole system, with up to MaxFlights requests waiting
Next ==
    \/ Register(RegisterBodies, MaxFlights)
    \/ RegisterFindOne(Salts)
    \/ RegisterCreate
    \/ Login(LoginBodies, MaxFlights)
    \/ LoginFindOne
    \/ LoginCompare
    \/ Profile(HeadersWith(issued), MaxFlights)
    \/ List(HeadersWith(issued), MaxFlights)
    \/ Convert(HeadersWith(issued), ConvertBodies, MaxFlights)
    \/ Create(HeadersWith(issued), PairBodies, MaxFlights)
    \/ Update(HeadersWith(issued), PairIds, PairBodies, MaxFlights)
    \/ Delete(HeadersWith(issued), PairIds, MaxFlights)
    \/ ProtectFindById
    \/ ProfileFindById
    \/ ListFind
    \/ ConvertFindOne
    \/ CreateFindOne
    \/ CreateInsert
    \/ UpdateFindById
    \/ UpdateSave
    \/ DeleteFindById
    \/ DeleteDeleteOne
    \/ SeedAdmin(Salts)
    \/ ExternalDeleteUser
    \/ ExternalSetRole
    \/ Tick(1, MaxTime)
    \/ Deliver

Spec == Init /\ [][Next]_vars

\* the Auth Service alone
NextAuth ==
    \/ Register(RegisterBodies, 1)
    \/ RegisterFindOne(Salts)
    \/ RegisterCreate
    \/ Login(LoginBodies, 1)
    \/ LoginFindOne
    \/ LoginCompare
    \/ Profile(HeadersWith(issued), 1)
    \/ ProtectFindById
    \/ ProfileFindById
    \/ SeedAdmin(Salts)
    \/ ExternalDeleteUser
    \/ Tick(TokenLifetime, MaxTime)
    \/ Deliver

SpecAuth == Init /\ [][NextAuth]_vars

\* the state after the admin was seeded, "abc" registered and the admin
\* logged in, all on day 0
SeededUsers ==
    CreateUser(CreateUser(<< >>, 1, AdminName, AdminPassword, AdminRole, "salt1").users,
               2, NameAbc, PassSecret, UserRole, "salt1").users

InitSeeded ==
    /\ users = SeededUsers
    /\ pairs = << >>
    /\ nextUserId = 3
    /\ nextPairId = 1
    /\ now = 0
    /\ issued = {generateToken(1, 0), generateToken(2, 0)}
    /\ req = NoRequest
    /\ ran = << >>
    /\ res = NoResponse
    /\ flight = << >>

\* the Rate and Conversion Services, called by the admin and by a user
MaxDays == 1

NextRates ==
    \/ List(BearerHeaders(issued), 1)
    \/ Convert(BearerHeaders(issued), ConvertBodies, 1)
    \/ Create(BearerHeaders(issued), PairBodies, 1)
    \/ Update(BearerHeaders(issued), PairIds, PairBodies, 1)
    \/ Delete(BearerHeaders(issued), PairIds, 1)
    \/ ProtectFindById
    \/ ListFind
    \/ ConvertFindOne
    \/ CreateFindOne
    \/ CreateInsert
    \/ UpdateFindById
    \/ UpdateSave
    \/ DeleteFindById
    \/ DeleteDeleteOne
    \/ Tick(1, MaxDays)
    \/ Deliver

SpecRates == InitSeeded /\ [][NextRates]_vars

\* every protected route, reached with every kind of Authorization header,
\* while time passes and users are removed
GatePairBodies == { PairBody(USD, EUR, Num(850)), PairBody(UsdLower, EurLower, Num(850)) }
GateConvertBodies == { ConvertBody(USD, EUR, Num(100000)), ConvertBody(USD, EUR, Num(0)) }

NextGate ==
    \/ Profile(HeadersWith(issued), 1)
    \/ List(HeadersWith(issued), 1)
    \/ Convert(HeadersWith(issued), GateConvertBodies, 1)
    \/ Create(HeadersWith(issued), GatePairBodies, 1)
    \/ Update(HeadersWith(issued), PairIds, GatePairBodies, 1)
    \/ Delete(HeadersWith(issued), PairIds, 1)
    \/ ProtectFindById
    \/ ProfileFindById
    \/ ListFind
    \/ ConvertFindOne
    \/ CreateFindOne
    \/ CreateInsert
    \/ UpdateFindById
    \/ UpdateSave
    \/ DeleteFindById
    \/ DeleteDeleteOne
    \/ ExternalDeleteUser
    \/ Tick(TokenLifetime, MaxTime)
    \/ Deliver

SpecGate == InitSeeded /\ [][NextGate]_vars

\* the life of a token, day by day
TokenRegisterBodies == [username : {NameAbc}, password : {PassSecret}, role : {RoleAbsent}]
TokenLoginBodies == [username : {NameAbc}, password : {PassSecret, PassOther}]

NextToken ==
    \/ Register(TokenRegisterBodies, 1)
    \/ RegisterFindOne({"salt1"})
    \/ RegisterCreate
    \/ Login(TokenLoginBodies, 1)
    \/ LoginFindOne
    \/ LoginCompare
    \/ Profile(BearerHeaders(issued), 1)
    \/ List(BearerHeaders(issued), 1)
    \/ ProtectFindById
    \/ ProfileFindById
    \/ ListFind
    \/ ExternalDeleteUser
    \/ Tick(1, MaxTime)
    \/ Deliver

SpecToken == Init /\ [][NextToken]_vars

\* the operations that only read, next to one that fills the Rate Store
NextReads ==
    \/ Login(LoginBodies, 1)
    \/ LoginFindOne
    \/ LoginCompare
    \/ Profile(HeadersWith(issued), 1)
    \/ List(HeadersWith(issued), 1)
    \/ Convert(HeadersWith(issued), GateConvertBodies, 1)
    \/ Create(BearerHeaders(issued), GatePairBodies, 1)
    \/ ProtectFindById
    \/ ProfileFindById
    \/ ListFind
    \/ ConvertFindOne
    \/ CreateFindOne
    \/ CreateInsert
    \/ ExternalDeleteUser
    \/ Tick(TokenLifetime, MaxTime)
    \/ Deliver

SpecReads == InitSeeded /\ [][NextReads]_vars

\* every route of the API, from empty stores, with the admin seeded by the
\* script
ApiRegisterBodies ==
    [username : {NameAbc, NameBob}, password : {PassSecret}, role : {RoleAbsent, AdminRole}]
ApiLoginBodies ==
    [username : {NameAbc, AdminName}, password : {PassSecret, AdminPassword}]

NextApi ==
    \/ Register(ApiRegisterBodies, 1)
    \/ RegisterFindOne({"salt1"})
    \/ RegisterCreate
    \/ Login(ApiLoginBodies, 1)
    \/ LoginFindOne
    \/ LoginCompare
    \/ Profile(BearerHeaders(issued), 1)
    \/ List(BearerHeaders(issued), 1)
    \/ Convert(BearerHeaders(issued), GateConvertBodies, 1)
    \/ Create(BearerHeaders(issued), GatePairBodies, 1)
    \/ Update(BearerHeaders(issued), PairIds, GatePairBodies, 1)
    \/ Delete(BearerHeaders(issued), PairIds, 1)
    \/ ProtectFindById
    \/ ProfileFindById
    \/ ListFind
    \/ ConvertFindOne
    \/ CreateFindOne
    \/ CreateInsert
    \/ UpdateFindById
    \/ UpdateSave
    \/ DeleteFindById
    \/ DeleteDeleteOne
    \/ SeedAdmin({"salt1"})
    \/ Deliver

SpecApi == Init /\ [][NextApi]_vars

\* the admin routes while roles are changed outside the API
NextRoles ==
    \/ Profile(BearerHeaders(issued), 1)
    \/ Create(BearerHeaders(issued), GatePairBodies, 1)
    \/ Update(BearerHeaders(issued), PairIds, GatePairBodies, 1)
    \/ Delete(BearerHeaders(issued), PairIds, 1)
    \/ ProtectFindById
    \/ ProfileFindById
    \/ CreateFindOne
    \/ CreateInsert
    \/ UpdateFindById
    \/ UpdateSave
    \/ DeleteFindById
    \/ DeleteDeleteOne
    \/ ExternalSetRole
    \/ Deliver

SpecRoles == InitSeeded /\ [][NextRoles]_vars

\* overlapping requests of the admin to the Rate Service
RacePairBodies == GatePairBodies \cup { PairBody(USD, EUR, Num(1200)) }

NextCreateRace ==
    \/ Create(BearerHeaders(issued), RacePairBodies, MaxFlights)
    \/ Delete(BearerHeaders(issued), PairIds, MaxFlights)
    \/ ProtectFindById
    \/ CreateFindOne
    \/ CreateInsert
    \/ DeleteFindById
    \/ DeleteDeleteOne
    \/ Deliver

SpecCreateRace == InitSeeded /\ [][NextCreateRace]_vars

\* overlapping Registers, from an empty Credential Store
RaceRegisterBodies ==
    [username : {NameAbc, NameAbcPadded, NameBob, NameShort},
     password : {PassSecret}, role : {RoleAbsent}]

NextRegisterRace ==
    \/ Register(RaceRegisterBodies, MaxFlights)
    \/ RegisterFindOne(Salts)
    \/ RegisterCreate
    \/ Login(ApiLoginBodies, MaxFlights)
    \/ LoginFindOne
    \/ LoginCompare
    \/ Deliver

SpecRegisterRace == Init /\ [][NextRegisterRace]_vars

(***************************************************************************)
(* Properties.                                                             *)
(***************************************************************************)
\* a step that answers a request
Serves == Ready /\ ~Ready'

ProtectedOps == {"profile", "list", "convert", "create", "update", "delete"}

\* a step in which a request arrives: it goes on to wait, or it is answered
\* at once
Arrives ==
    /\ Ready
    /\ \/ Len(flight') > Len(flight)
       \/ ~Ready' /\ Len(flight') = Len(flight)

\* the request that arrives
Arriving == IF Len(flight') > Len(flight) THEN flight'[Len(flight')].r ELSE req'

\* a step in which the k-th waiting request goes on: it is answered, or it
\* moves to its next await
Advances(k) ==
    /\ k \in DOMAIN flight
    /\ \/ ~Ready' /\ flight' = RemoveAt(flight, k)
       \/ Len(flight') = Len(flight) /\ flight'[k] # flight[k]

\* the header carries, where protect looks for it, a token the server
\* signed, not yet expired, of a user that exists
ValidToken(h) ==
    /\ TokenOf(h) \in issued
    /\ now < TokenOf(h).iat + TokenLifetime
    /\ TokenOf(h).id \in DOMAIN users

CallerOf(h) == users[TokenOf(h).id]

\* the request carries a valid token of an admin
AdminCall(r) == ValidToken(r.header) /\ CallerOf(r.header).role = AdminRole

\* a record is stored under these codes
Stored(base, target) ==
    \E i \in DOMAIN pairs :
        pairs[i].baseCurrency = base /\ pairs[i].targetCurrency = target

PositiveAmount(x) == x.k = "num" /\ x.v > 0

\* a code of exactly 3 characters, uppercase and trimmed
WellFormedCode(c) == Len(c) = 3 /\ c = ToUpperCase(c) /\ c = Trim(c)

WellFormedPair(p) ==
    p.rate > 0 /\ WellFormedCode(p.baseCurrency) /\ WellFormedCode(p.targetCurrency)

\* C1: no two stored currency pairs have the same ordered (baseCurrency,
\* targetCurrency), after any sequence of admin Create, Update and Delete
\* requests served one at a time.
C1_PairsUnique ==
    \A i, j \in DOMAIN pairs :
        i # j => <<pairs[i].baseCurrency, pairs[i].targetCurrency>>
                 # <<pairs[j].baseCurrency, pairs[j].targetCurrency>>

\* C2: a Create, Update or Delete request with a valid token of a user whose
\* role is not admin is answered 403 when protect has looked the user up,
\* and leaves the Rate Store as it was, whatever its body and id.
C2_NonAdminForbidden ==
    [][\A k \in DOMAIN flight :
          (Advances(k) /\ flight[k].r.op \in AdminOps /\ flight[k].pc = "protect"
              /\ flight[k].user.id \in DOMAIN users
              /\ users[flight[k].user.id].role # AdminRole)
          => (Serves /\ res'.status = 403 /\ pairs' = pairs
              /\ nextPairId' = nextPairId)]_vars

\* a non-admin was refused an Update of a stored pair with a body that is valid
C2_Witness ==
    /\ req.op = "update"
    /\ ValidToken(req.header)
    /\ CallerOf(req.header).role = UserRole
    /\ req.id \in DOMAIN pairs
    /\ Len(currencyPairValidation(req.body)) = 0
    /\ res.status = 403

\* the header is missing, does not begin with "Bearer" or carries no token
NoBearerToken(h) == TokenOf(h).kind \in {"undefined", "empty"}

\* the carried token is no JWT or was not signed with the server's secret
BadSignature(h) == ~NoBearerToken(h) /\ TokenOf(h) \notin issued

Expired(h) == TokenOf(h) \in issued /\ now >= TokenOf(h).iat + TokenLifetime

\* the request is refused by protect alone and nothing is written
RefusedByProtect ==
    /\ Serves
    /\ res'.status = 401
    /\ ran' = <<"protect">>
    /\ users' = users
    /\ pairs' = pairs

\* the header is missing, its scheme is not the word "Bearer", or no token
\* follows the scheme
NotBearerToken(h) ==
    \/ ~h.present
    \/ h.scheme # BearerWord
    \/ Len(h.parts) = 0
    \/ h.parts[1] = EmptyString

\* C3: a request to a protected route whose Authorization header is missing
\* or is not a Bearer token, or whose token has an invalid signature or is
\* expired, is answered 401 when it arrives, and one whose token names a
\* user that no longer exists is answered 401 when protect looks the user
\* up; no handler runs and both stores stay as they were.
C3_Unauthenticated401 ==
    [][/\ (Arrives /\ Arriving.op \in ProtectedOps
              /\ (NotBearerToken(Arriving.header) \/ BadSignature(Arriving.header)
                  \/ Expired(Arriving.header)))
          => RefusedByProtect
       /\ \A k \in DOMAIN flight :
             (Advances(k) /\ flight[k].pc = "protect"
                 /\ flight[k].user.id \notin DOMAIN users)
             => RefusedByProtect]_vars

\* C4: a successful Register stores the new user with role "user" and
\* returns role "user", whatever role the body asked for.
C4_RegisterForcesUserRole ==
    (req.op = "register" /\ res.status = 201) =>
        /\ res.body.user.role = UserRole
        /\ res.body.user.id \in DOMAIN users
        /\ users[res.body.user.id].role = UserRole
        /\ users[res.body.user.id].username = Trim(req.body.username)

\* a Register that asked for role "admin" succeeded
C4_Witness ==
    /\ req.op = "register"
    /\ req.body.role = AdminRole
    /\ res.status = 201

\* C5: a Register whose trimmed username is, when registerUser looks the
\* name up, that of an existing user is answered 400, creates and changes no
\* user and issues no token.
C5_DuplicateUsernameRejected ==
    [][\A k \in DOMAIN flight :
          (Advances(k) /\ flight[k].r.op = "register" /\ flight[k].pc = "handler"
              /\ \E i \in DOMAIN users :
                    users[i].username = Trim(flight[k].r.body.username))
          => (Serves /\ res'.status = 400 /\ users' = users
              /\ nextUserId' = nextUserId /\ issued' = issued
              /\ "token" \notin DOMAIN res'.body)]_vars

\* a Register with a valid password was refused because the name, once
\* trimmed, is taken
C5_Witness ==
    /\ req.op = "register"
    /\ req.body.username = NameAbcPadded
    /\ req.body.password = PassSecret
    /\ req.body.role = RoleAbsent
    /\ UsersNamed(users, NameAbc) # {}
    /\ res.status = 400
    /\ res.body.message = "Username already exists"

\* the users a login with this username and password is for
LoginMatches(username, password) ==
    {i \in DOMAIN users :
        users[i].username = username /\ BcryptCompare(password, users[i].password)}

\* the step refuses the login with 401, without a token
LoginRefused ==
    /\ res'.status = 401
    /\ "token" \notin DOMAIN res'.body
    /\ issued' = issued

\* the passwords a Register, or the seeding script, can have given for the
\* user whose hash this is: those whose registration stores this hash
GivenAtRegister(hash) ==
    {q \in {b.password : b \in RegisterBodies} \cup {AdminPassword} :
        UserDoc(<< >>, Trim(q), UserRole, hash.salt).password = hash}

\* the first 72 bytes of a password
KeyPrefix(s) ==
    SubSeq(s, 1, IF Len(s) < BcryptKeyBytes THEN Len(s) ELSE BcryptKeyBytes)

\* the entered password is the one given at Register: the same text as
\* given, or, trimmed, the same first 72 bytes
SamePassword(trimmed, entered, given) ==
    IF trimmed THEN KeyPrefix(Trim(entered)) = KeyPrefix(Trim(given))
    ELSE entered = given

\* a Login is decided by the username and the password read as given
\* (trimmed or not): with both non-empty it is not refused when it arrives;
\* its lookup goes on with a user of that name when one is stored and is
\* answered 401 otherwise; the comparison is answered 200 with that user's
\* id and a token for it when the password is the one given at Register
\* for the user that was looked up, and 401 otherwise
LoginDecides(trimmed) ==
    /\ (Arrives /\ Arriving.op = "login"
            /\ Len(IF trimmed THEN Trim(Arriving.body.username)
                    ELSE Arriving.body.username) > 0
            /\ Len(IF trimmed THEN Trim(Arriving.body.password)
                    ELSE Arriving.body.password) > 0)
       => Len(flight') > Len(flight)
    /\ \A k \in DOMAIN flight :
          (Advances(k) /\ flight[k].r.op = "login") =>
             LET b == flight[k].r.body
                 username == IF trimmed THEN Trim(b.username) ELSE b.username
             IN  IF flight[k].pc = "handler"
                 THEN IF \E i \in DOMAIN users : users[i].username = username
                      THEN /\ Ready'
                           /\ flight'[k].pc = "compare"
                           /\ users[flight'[k].user.id].username = username
                           /\ flight'[k].doc = users[flight'[k].user.id]
                      ELSE LoginRefused
                 ELSE /\ GivenAtRegister(flight[k].doc.password) # {}
                      /\ \A q \in GivenAtRegister(flight[k].doc.password) :
                            IF SamePassword(trimmed, b.password, q)
                            THEN /\ res'.status = 200
                                 /\ res'.body.user.id = flight[k].user.id
                                 /\ res'.body.token \in issued'
                                 /\ res'.body.token.id = flight[k].user.id
                            ELSE LoginRefused

\* C6 as stated: for a non-empty username and password, Login succeeds
\* exactly when a user with that exact username exists and the password is
\* the one given at Register, returning that user's id and a token;
\* otherwise it is answered 401 with no token.
C6_LoginExact == [][LoginDecides(FALSE)]_vars

\* C6 as amended: the same with the username and the password trimmed, at
\* Login and at Register, and the passwords compared on their first 72
\* bytes: after a successful Register the password of the request is the
\* one given for the new user, a Login with it matches that user alone, and
\* the token is for the new user.
C6_LoginTrimmed ==
    /\ []((req.op = "register" /\ res.status = 201)
            => /\ req.body.password
                     \in GivenAtRegister(users[res.body.user.id].password)
               /\ LoginMatches(Trim(req.body.username), Trim(req.body.password))
                     = {res.body.user.id}
               /\ res.body.token \in issued
               /\ res.body.token.id = res.body.user.id)
    /\ [][LoginDecides(TRUE)]_vars

\* a Login with a padded username succeeded with a password of 73 bytes
\* that differs in its last byte from the one given at Register
C6_Witness ==
    /\ req.op = "login"
    /\ req.body.username = NameAbcPadded
    /\ req.body.password = PassLongOther
    /\ res.status = 200
    /\ res.body.user.id \in DOMAIN users
    /\ GivenAtRegister(users[res.body.user.id].password) = {PassLong}

\* C7: a Login that fails gets the same response, 401 with one generic
\* message, whether the user is unknown or the password is wrong.
C7_LoginFailureUniform ==
    (req.op = "login" /\ Len(loginValidation(req.body)) = 0 /\ res.status # 200)
    => res = Failure(401, "Invalid username or password")

\* a Login for an existing user with a wrong password failed
C7_Witness ==
    /\ req.op = "login"
    /\ UsersNamed(users, Trim(req.body.username)) # {}
    /\ LoginMatches(Trim(req.body.username), Trim(req.body.password)) = {}
    /\ Len(Trim(req.body.password)) > 0
    /\ res.status = 401

\* C8: a token issued at time t is accepted on protected routes at every
\* time before t + 30 days while its user exists, and refused with 401 from
\* t + 30 days on, whatever was served in between: a request that arrives
\* with it passes the verification exactly before t + 30 days, passes
\* protect's lookup exactly when the user exists, and is then answered 200
\* (404 by the profile route when the user was removed after the lookup).
C8_TokenLifetime ==
    [][/\ (Arrives /\ Arriving.op \in ProtectedOps
              /\ TokenOf(Arriving.header) \in issued)
          => IF now < TokenOf(Arriving.header).iat + TokenLifetime
             THEN Len(flight') > Len(flight)
             ELSE RefusedByProtect
       /\ \A k \in DOMAIN flight :
             (Advances(k) /\ flight[k].r.op \in ProtectedOps) =>
                IF flight[k].pc = "protect"
                THEN IF flight[k].user.id \in DOMAIN users
                     THEN Ready' /\ flight'[k].pc = "handler"
                     ELSE RefusedByProtect
                ELSE \/ res'.status = 200
                     \/ /\ flight[k].r.op = "profile"
                        /\ flight[k].user.id \notin DOMAIN users
                        /\ res'.status = 404]_vars

\* on its last day a token was accepted, after a later Login of the same
\* user had issued another one
C8_Witness ==
    /\ req.op = "profile"
    /\ TokenOf(req.header) \in issued
    /\ now = TokenOf(req.header).iat + TokenLifetime - 1
    /\ \E t \in issued :
          t.id = TokenOf(req.header).id /\ t.iat > TokenOf(req.header).iat
    /\ res.status = 200

\* a * r rounded to hundredths, half away from zero, for amounts and rates in
\* thousandths
RoundHalfAway(a, r) == (a * r + 5000) \div 10000

\* C9: a successful Convert returns amount * rate rounded to 2 decimal places,
\* half away from zero, and the stored rate unrounded.
C9_ConvertRounds ==
    (req.op = "convert" /\ res.status = 200 /\ req.body.amount.k = "num") =>
        LET found == PairsMatching(pairs, ToUpperCase(Trim(req.body.baseCurrency)),
                                   ToUpperCase(Trim(req.body.targetCurrency)))
        IN  \E i \in found :
                /\ res.body.data.rate = pairs[i].rate
                /\ res.body.data.convertedAmount
                       = RoundHalfAway(req.body.amount.v, pairs[i].rate)

\* C10: a Convert by an authenticated caller with a numeric amount that is 0
\* or negative is answered 400, whether or not the pair is stored.
C10_NonPositiveAmountRejected ==
    (req.op = "convert" /\ ValidToken(req.header)
        /\ req.body.amount.k = "num" /\ req.body.amount.v <= 0)
    => (res.status = 400 /\ res.body.message = "Please provide a valid amount")

\* a negative amount was refused for a pair that is stored
C10_Witness ==
    /\ req.op = "convert"
    /\ ValidToken(req.header)
    /\ req.body.amount.k = "num"
    /\ req.body.amount.v < 0
    /\ PairsMatching(pairs, ToUpperCase(Trim(req.body.baseCurrency)),
                     ToUpperCase(Trim(req.body.targetCurrency))) # {}
    /\ res.status = 400

\* C11: a Convert by an authenticated caller whose amount is missing, is not
\* numeric or is not finite is answered 400, never 200, 404 or 500.
C11_BadAmountRejected ==
    (req.op = "convert" /\ ValidToken(req.header) /\ req.body.amount.k # "num")
    => res.status = 400

\* C12 as stated: a Convert with a valid amount is answered 404 whenever no
\* record is stored under exactly (uppercase(base), uppercase(target)), the
\* reverse pair or a chain of pairs notwithstanding.
C12_NotFoundExact ==
    (req.op = "convert" /\ ValidToken(req.header) /\ PositiveAmount(req.body.amount)
        /\ ~Stored(ToUpperCase(req.body.baseCurrency),
                   ToUpperCase(req.body.targetCurrency)))
    => res.status = 404

\* C12 as amended: the same with the two codes trimmed before they are
\* uppercased.
C12_NotFoundTrimmed ==
    (req.op = "convert" /\ ValidToken(req.header) /\ PositiveAmount(req.body.amount)
        /\ ~Stored(ToUpperCase(Trim(req.body.baseCurrency)),
                   ToUpperCase(Trim(req.body.targetCurrency))))
    => res.status = 404

\* EUR to GBP was answered 404 while EUR to USD and USD to GBP were stored
C12_Witness ==
    /\ req.op = "convert"
    /\ req.body.baseCurrency = EUR
    /\ req.body.targetCurrency = GBP
    /\ PositiveAmount(req.body.amount)
    /\ Stored(EUR, USD)
    /\ Stored(USD, GBP)
    /\ res.status = 404

ReadOps == {"convert", "list", "login", "profile"}

\* C13: Convert, List, Login, the profile route and the verification of a
\* token on any protected route leave the Credential Store and the Rate
\* Store as they were at each of their steps, whether they succeed or fail.
C13_ReadsLeaveStores ==
    [][/\ (Arrives /\ Arriving.op \in ProtectedOps \cup ReadOps)
          => (users' = users /\ pairs' = pairs)
       /\ \A k \in DOMAIN flight :
             (Advances(k) /\ (flight[k].pc = "protect" \/ flight[k].r.op \in ReadOps))
             => (users' = users /\ pairs' = pairs)]_vars

\* a Login succeeded while both stores held records
C13_Witness ==
    /\ req.op = "login"
    /\ res.status = 200
    /\ DOMAIN users # {}
    /\ DOMAIN pairs # {}

\* C14: a List returns every stored record exactly once, in ascending order
\* of baseCurrency, and what it returns depends on the store alone, the
\* order of records that share a baseCurrency included: a second List of the
\* same store, whichever order the query returns for it, returns the same
\* data.
C14_ListDetermined ==
    (req.op = "list" /\ res.status = 200) =>
        LET d == res.body.data
        IN  /\ \A i \in DOMAIN pairs :
                  Cardinality({k \in DOMAIN d : d[k] = PairView(i, pairs[i])}) = 1
            /\ Cardinality(DOMAIN d) = Cardinality(DOMAIN pairs)
            /\ \A k, l \in DOMAIN d :
                  k < l => ~StrLess(d[l].baseCurrency, d[k].baseCurrency)
            /\ \A o \in SortedListings(pairs) : getCurrencyPairs(o).body.data = d

\* C15: an admin Create with 3-letter codes in any letter case and a rate
\* above 0, whose uppercased pair is not stored, is answered 201 and stores a
\* record with the uppercased codes and the given rate.
C15_CreateAnyCase ==
    [][(Serves /\ req'.op = "create" /\ AdminCall(req')
           /\ Len(req'.body.baseCurrency) = 3 /\ Len(req'.body.targetCurrency) = 3
           /\ PositiveAmount(req'.body.rate)
           /\ ~Stored(ToUpperCase(req'.body.baseCurrency),
                      ToUpperCase(req'.body.targetCurrency)))
        => (res'.status = 201
            /\ \E i \in DOMAIN pairs' :
                  /\ pairs'[i].baseCurrency = ToUpperCase(req'.body.baseCurrency)
                  /\ pairs'[i].targetCurrency = ToUpperCase(req'.body.targetCurrency)
                  /\ pairs'[i].rate = req'.body.rate.v)]_vars

\* C16: an admin Create for an ordered pair that is stored when the handler
\* looks it up, compared after trimming and uppercasing, is answered 400 and
\* leaves the Rate Store as it was.
C16_DuplicateCreateRejected ==
    [][\A k \in DOMAIN flight :
          (Advances(k) /\ flight[k].r.op = "create" /\ flight[k].pc = "handler"
              /\ Stored(ToUpperCase(Trim(flight[k].r.body.baseCurrency)),
                        ToUpperCase(Trim(flight[k].r.body.targetCurrency))))
          => (Serves /\ res'.status = 400 /\ pairs' = pairs
              /\ nextPairId' = nextPairId)]_vars

\* a Create of USD to EUR at another rate was refused and the stored rate kept
C16_Witness ==
    /\ req.op = "create"
    /\ req.body = PairBody(USD, EUR, Num(1200))
    /\ res.status = 400
    /\ res.body.message = "Currency pair already exists"
    /\ \E i \in DOMAIN pairs :
          pairs[i].baseCurrency = USD /\ pairs[i].targetCurrency = EUR
          /\ pairs[i].rate = 850

\* an admin Create or Update whose rate is 0 or negative, or one of whose
\* codes (as sent, or trimmed) is not exactly 3 characters long, is answered
\* 400 and stores nothing
PairsWellFormed(trimmed) ==
    \A k \in DOMAIN flight :
          (Advances(k) /\ flight[k].r.op \in {"create", "update"}
              /\ flight[k].pc = "handler"
              /\ LET b == flight[k].r.body
                     base == IF trimmed THEN Trim(b.baseCurrency) ELSE b.baseCurrency
                     target == IF trimmed THEN Trim(b.targetCurrency)
                               ELSE b.targetCurrency
                 IN  LeqZero(b.rate) \/ Len(base) # 3 \/ Len(target) # 3)
          => (Serves /\ res'.status = 400 /\ pairs' = pairs
              /\ nextPairId' = nextPairId)

\* C17 as stated: every stored record has a rate above 0 and codes of
\* exactly 3 characters, uppercase and trimmed; an admin Create or Update
\* whose rate is 0 or negative, or one of whose codes is not exactly 3
\* characters long, is answered 400 and stores nothing.
C17_StoredPairsWellFormedExact ==
    /\ [](\A i \in DOMAIN pairs : WellFormedPair(pairs[i]))
    /\ [][PairsWellFormed(FALSE)]_vars

\* C17 as amended: the same with the length of a code counted after its
\* surrounding whitespace is trimmed.
C17_StoredPairsWellFormed ==
    /\ [](\A i \in DOMAIN pairs : WellFormedPair(pairs[i]))
    /\ [][PairsWellFormed(TRUE)]_vars

\* an Update of a stored record to rate 0 was refused
C17_Witness ==
    /\ req.op = "update"
    /\ req.id \in DOMAIN pairs
    /\ req.body = PairBody(USD, EUR, Num(0))
    /\ res.status = 400

\* C18: an admin Update of a stored id that supplies only some of rate,
\* baseCurrency and targetCurrency, each valid, is answered 200, sets the
\* supplied fields and keeps the others.  A field is supplied when the
\* handler's test of it is true.
C18_PartialUpdate ==
    [][(Serves /\ req'.op = "update" /\ AdminCall(req') /\ req'.id \in DOMAIN pairs
           /\ (~Falsy(req'.body.rate) => PositiveAmount(req'.body.rate))
           /\ (Len(req'.body.baseCurrency) > 0
                  => WellFormedCode(req'.body.baseCurrency))
           /\ (Len(req'.body.targetCurrency) > 0
                  => WellFormedCode(req'.body.targetCurrency))
           /\ (\/ Falsy(req'.body.rate)
               \/ Len(req'.body.baseCurrency) = 0
               \/ Len(req'.body.targetCurrency) = 0))
        => (/\ res'.status = 200
            /\ req'.id \in DOMAIN pairs'
            /\ pairs'[req'.id].rate =
                  (IF ~Falsy(req'.body.rate) THEN req'.body.rate.v
                   ELSE pairs[req'.id].rate)
            /\ pairs'[req'.id].baseCurrency =
                  (IF Len(req'.body.baseCurrency) > 0 THEN req'.body.baseCurrency
                   ELSE pairs[req'.id].baseCurrency)
            /\ pairs'[req'.id].targetCurrency =
                  (IF Len(req'.body.targetCurrency) > 0
                   THEN req'.body.targetCurrency
                   ELSE pairs[req'.id].targetCurrency))]_vars

\* C19: an admin Update or Delete with an id under which no record is stored
\* is answered 404 and leaves the Rate Store as it was.
C19_UnknownIdNotFound ==
    [][(Serves /\ req'.op \in {"update", "delete"} /\ AdminCall(req')
           /\ req'.id \notin DOMAIN pairs)
        => (res'.status = 404 /\ pairs' = pairs)]_vars

\* C20: a Delete answered 200 removes the record with that id and no other;
\* after it the id is not stored and no record is stored under the removed
\* record's ordered pair, so that a Convert on that pair is answered 404.
C20_DeleteRemovesRecord ==
    [][(Serves /\ req'.op = "delete" /\ res'.status = 200)
        => (/\ req'.id \in DOMAIN pairs
            /\ pairs' = [i \in DOMAIN pairs \ {req'.id} |-> pairs[i]]
            /\ ~\E i \in DOMAIN pairs' :
                  /\ pairs'[i].baseCurrency = pairs[req'.id].baseCurrency
                  /\ pairs'[i].targetCurrency = pairs[req'.id].targetCurrency)]_vars

\* C21: a Create, Update or Delete leaves, at each of its steps, every record
\* other than the one it is for as it was, the record of the reverse pair
\* included, and adds at most the one record a Create is for: nothing ties
\* rate(A,B) to rate(B,A).
C21_ReversePairUntouched ==
    [][\A k \in DOMAIN flight :
          (Advances(k) /\ flight[k].r.op \in AdminOps)
          => LET r == flight[k].r
             IN  /\ \A j \in DOMAIN pairs \ {r.id} :
                       j \in DOMAIN pairs' /\ pairs'[j] = pairs[j]
                 /\ \A j \in DOMAIN pairs' \ DOMAIN pairs :
                       /\ r.op = "create"
                       /\ pairs'[j].baseCurrency
                             = ToUpperCase(Trim(r.body.baseCurrency))
                       /\ pairs'[j].targetCurrency
                             = ToUpperCase(Trim(r.body.targetCurrency))]_vars

\* USD to EUR was deleted while EUR to USD stays stored
C21_Witness ==
    /\ req.op = "delete"
    /\ res.status = 200
    /\ ~Stored(USD, EUR)
    /\ Stored(EUR, USD)

\* C22: an Update with a valid body or a Delete whose id is malformed, which
\* makes the storage layer raise a cast error, is answered as errorHandler
\* answers that error, with 404.
C22_StorageErrorsMapped ==
    [][(Serves /\ req'.op \in {"update", "delete"} /\ AdminCall(req')
           /\ ~IsObjectId(req'.id)
           /\ (req'.op = "update" => Len(currencyPairValidation(req'.body)) = 0))
        => res'.status = errorHandler(CastError).status]_vars

\* C23: an admin Update of a stored id whose rate is 0 or missing, with valid
\* codes, is answered 200, keeps the stored rate and applies the codes.
C23_FalsyRateIgnored ==
    [][(Serves /\ req'.op = "update" /\ AdminCall(req') /\ req'.id \in DOMAIN pairs
           /\ Falsy(req'.body.rate)
           /\ WellFormedCode(req'.body.baseCurrency)
           /\ WellFormedCode(req'.body.targetCurrency))
        => (/\ res'.status = 200
            /\ req'.id \in DOMAIN pairs'
            /\ pairs'[req'.id].rate = pairs[req'.id].rate
            /\ pairs'[req'.id].baseCurrency = req'.body.baseCurrency
            /\ pairs'[req'.id].targetCurrency = req'.body.targetCurrency)]_vars

\* C24: a Create answered 201 stores the record with lastUpdated at the
\* time of the request; an Update answered 200 sets lastUpdated to the time of
\* the request when it stores a rate that differs from the stored one, and
\* keeps lastUpdated otherwise.  The time of the request is the time at
\* which the handler builds the document it then writes.
C24_LastUpdatedFollowsRate ==
    [][\A k \in DOMAIN flight :
          (Advances(k) /\ flight[k].r.op \in {"create", "update"})
          => LET r == flight[k].r
             IN  /\ (flight[k].pc = "handler" /\ Ready') =>
                       flight'[k].doc.lastUpdated =
                          (IF r.op = "create" \/ flight'[k].doc.rate # pairs[r.id].rate
                           THEN now ELSE pairs[r.id].lastUpdated)
                 /\ (flight[k].pc = "write" /\ res'.status \in {200, 201}) =>
                       LET id == res'.body.data.id
                       IN  /\ id \in DOMAIN pairs'
                           /\ pairs'[id].lastUpdated =
                                 (IF r.op = "create" \/ pairs'[id].rate # pairs[id].rate
                                  THEN flight[k].doc.lastUpdated
                                  ELSE pairs[id].lastUpdated)]_vars

\* an Update that sent the rate already stored kept a lastUpdated of an
\* earlier day
C24_Witness ==
    /\ req.op = "update"
    /\ res.status = 200
    /\ req.body.rate.v = pairs[req.id].rate
    /\ pairs[req.id].lastUpdated < now

\* C25: the write of a Create whose duplicate check passed succeeds whatever
\* was stored since the check: it is answered 201 and adds one more record
\* for its pair, next to any record another Create stored in between.
C25_OverlappingCreatesBothStored ==
    [][\A k \in DOMAIN flight :
          (Advances(k) /\ flight[k].r.op = "create" /\ flight[k].pc = "write")
          => LET base == ToUpperCase(Trim(flight[k].r.body.baseCurrency))
                 target == ToUpperCase(Trim(flight[k].r.body.targetCurrency))
             IN  /\ res'.status = 201
                 /\ Cardinality(PairsMatching(pairs', base, target))
                      = Cardinality(PairsMatching(pairs, base, target)) + 1]_vars

\* two Creates for the same ordered pair both succeeded: the second was
\* answered 201 and the store holds two records for the pair
C25_Witness ==
    /\ req.op = "create"
    /\ res.status = 201
    /\ \E i \in DOMAIN pairs :
        /\ i # res.body.data.id
        /\ pairs[i].baseCurrency = res.body.data.baseCurrency
        /\ pairs[i].targetCurrency = res.body.data.targetCurrency

\* C26: however Registers overlap, no two stored users share a username, and
\* a Register that stores no user is answered without a token and signs none.
C26_RegisterRaceSafe ==
    /\ [](\A i, j \in DOMAIN users : users[i].username = users[j].username => i = j)
    /\ [][(Serves /\ req'.op = "register" /\ DOMAIN users' = DOMAIN users)
            => ("token" \notin DOMAIN res'.body /\ issued' = issued)]_vars

\* a Register lost the race: its username check passed, another Register
\* stored the name first, and it was answered 500 without a token
C26_Witness ==
    /\ req.op = "register"
    /\ res = RegistrationFailed
    /\ \E i \in DOMAIN users : users[i].username = Trim(req.body.username)

\* C27: a response with status 500 carries the fixed message only, and no
\* message of the error that was thrown.
C27_ServerErrorsSanitized ==
    res.status = 500 => "error" \notin DOMAIN res.body

Admins(store) == {i \in DOMAIN store : store[i].role = AdminRole}

\* C28: a request to the API leaves, at each of its steps, every stored user
\* as it was and the set of admins as it was: users are only added, and only
\* with role "user".
C28_ApiKeepsAdmins ==
    [][(Arrives \/ \E k \in DOMAIN flight : Advances(k))
        => (/\ \A i \in DOMAIN users : i \in DOMAIN users' /\ users'[i] = users[i]
            /\ Admins(users') = Admins(users))]_vars

\* a Register that asked for role "admin" succeeded next to the seeded admin
C28_Witness ==
    /\ req.op = "register"
    /\ req.body.role = AdminRole
    /\ res.status = 201
    /\ Admins(users) # {}
    /\ res.body.user.id \notin Admins(users)

\* C29: on Create, Update and Delete the token is checked first, then the
\* role, then the body, then the id, and the first check that fails decides
\* the response: 401 without a valid token, else 403 for a caller who is no
\* admin, else 400 for an invalid body, else 404 (500 for a malformed id)
\* when the id is not stored.
C29_ChecksInOrder ==
    [][/\ (Arrives /\ Arriving.op \in AdminOps
              /\ (NoBearerToken(Arriving.header) \/ BadSignature(Arriving.header)
                  \/ Expired(Arriving.header)))
          => (Serves /\ res'.status = 401 /\ ran' = <<"protect">>)
       /\ \A k \in DOMAIN flight :
             (Advances(k) /\ flight[k].r.op \in AdminOps)
             => LET p == flight[k]
                IN  IF p.pc = "protect"
                    THEN IF p.user.id \notin DOMAIN users
                         THEN res'.status = 401 /\ ran' = <<"protect">>
                         ELSE IF users[p.user.id].role # AdminRole
                         THEN res'.status = 403 /\ ran' = <<"protect", "admin">>
                         ELSE Ready'
                    ELSE IF p.pc = "handler"
                    THEN IF p.r.op # "delete"
                            /\ Len(currencyPairValidation(p.r.body)) > 0
                         THEN res'.status = 400 /\ pairs' = pairs
                         ELSE IF p.r.op # "create" /\ p.r.id \notin DOMAIN pairs
                         THEN res'.status \in {404, 500} /\ pairs' = pairs
                         ELSE Ready' \/ res'.status = 400
                    ELSE res'.status \in {200, 201, 500}]_vars

\* an admin Update with an invalid body for an id that is not stored was
\* answered 400
C29_Witness ==
    /\ req.op = "update"
    /\ AdminCall(req)
    /\ Len(currencyPairValidation(req.body)) > 0
    /\ IsObjectId(req.id)
    /\ req.id \notin DOMAIN pairs
    /\ res.status = 400

\* C30: a request to an admin route with a valid token is refused with 403
\* exactly when the role stored for its user, at the time protect looks the
\* user up for this request, is not "admin".
C30_RoleReadAtRequest ==
    [][/\ (Arrives /\ Arriving.op \in AdminOps) => res'.status # 403
       /\ \A k \in DOMAIN flight :
             (Advances(k) /\ flight[k].r.op \in AdminOps)
             => IF flight[k].pc = "protect" /\ flight[k].user.id \in DOMAIN users
                THEN (res'.status = 403)
                        <=> (users[flight[k].user.id].role # AdminRole)
                ELSE res'.status # 403]_vars

\* the user registered with role "user", whose token dates from before the
\* change, created a pair after being made admin
C30_Witness ==
    /\ req.op = "create"
    /\ req.header = Bearer(generateToken(2, 0))
    /\ SeededUsers[2].role = UserRole
    /\ users[2].role = AdminRole
    /\ res.status = 201

====
